---- MODULE Spec2Model ----
(***************************************************************************)
(* config_watcher: the three source adapters (filesystem, ConfigMap, MQTT) *)
(* that turn raw change notifications into a DocumentEvent stream, and the *)
(* item diff engine that turns DocumentEvents into ConfigItemEvents.       *)
(*                                                                         *)
(* Spec        one adapter task (the backend is chosen at construction),   *)
(*             from construction through start, initial scan and the live  *)
(*             notification loop to termination.                           *)
(* SpecEngine  the item diff engine applied to an arbitrary DocumentEvent  *)
(*             stream.                                                     *)
(* SpecControl one adapter task and an owner that calls start() and stop() *)
(*             on its WatcherHandle in any order.                          *)
(* SpecSend    a producing task, its bounded event channel and the         *)
(*             consumer; SpecSendFair adds the runtime's scheduling.       *)
(* SpecPipeline a backend task, the engine task behind it and the owner of *)
(*             the ConfigItemWatcherHandle.                                *)
(*                                                                         *)
(* What a step of a task did (the notifications it consumed, what it read, *)
(* the table before and after, the events it sent, in order) is kept in    *)
(* the history variable step / estep until the next step.                  *)
(***************************************************************************)
EXTENDS Integers, Sequences, FiniteSets, TLC

VARIABLES
    backend,      \* which run_*_watcher constructed the task
    pc,           \* position of the adapter task
    result,       \* what the task's JoinHandle resolves to
    command,      \* the command channel, mpsc::channel(1)
    owner,        \* position of the owner of the WatcherHandle
    file_pattern, \* the glob pattern given to run_config_file_watcher
    files,        \* find_matching_files' result, between the walk and the reads
    file_hashes,  \* the adapter's DocumentHashTable
    lastContent,  \* per id whose latest sent event is NewDocument or ContentChanged:
                  \* the content that event carried
    step,         \* history: what the adapter's latest step did
    epc,          \* position of the engine task
    item_hashes,  \* the engine's ItemHashSet
    estep,        \* history: what the engine's latest step did
    stop_sender,  \* ConfigItemWatcherHandle.stop_sender: the value of the watch channel
    task_handle,  \* ConfigItemWatcherHandle.task_handle: Some(JoinHandle) or taken
    handle,       \* WatcherHandle.handle: Some(JoinHandle) or taken
    calls,        \* history: the start() / stop() calls that returned, with their
                  \* return values
    receiver,     \* the Receiver of the task's event channel: alive or dropped
    channel,      \* the task's event channel, mpsc::channel(capacity)
    outbox,       \* the events the running handler has still to send, in order
    pending,      \* how the running handler ends once its sends are done
    decided,      \* history: every event a handler came to send, in order
    received      \* history: every event the receiver took, in order

avars == <<backend, pc, result, command, owner, file_pattern, files, file_hashes,
           lastContent, step>>
hvars == <<stop_sender, task_handle>>
evars == <<epc, item_hashes, estep, stop_sender, task_handle>>
cvars == <<handle, calls>>
svars == <<receiver, channel, outbox, pending, decided, received>>
xvars == <<handle, calls, receiver, channel, outbox, pending, decided, received>>
vars == <<backend, pc, result, command, owner, file_pattern, files, file_hashes,
          lastContent, step, epc, item_hashes, estep, stop_sender, task_handle,
          handle, calls, receiver, channel, outbox, pending, decided, received>>

(***************************************************************************)
(* Bounds of the model.                                                    *)
(***************************************************************************)
\* events in one debounced batch (one message of the debouncer's channel)
MaxBatch == 1
\* separator-delimited segments in one document handed to the engine
MaxItems == 3
\* start() / stop() calls the owner makes on one handle
MaxCalls == 2
\* capacity of the event channel (mpsc::channel(100), channel_size)
EventCap == 1
\* events the handlers of one run come to send, in all
MaxSent == 3

(***************************************************************************)
(* Program constants.                                                      *)
(***************************************************************************)
\* mpsc::channel(1): the capacity of the command channel
CommandCap == 1

(***************************************************************************)
(* Strings, hashing, maps.                                                 *)
(***************************************************************************)
Absent == "<absent>"
NoContent == "<none>"
InvalidUtf8 == "<ff>"

\* every string the model hashes; hash_str is computed from the position
Vocabulary ==
    << "v1", "v2", "1", "2", "3", "p1", "p2",
       "a", "b", "c", "!",
       "/w/a.yaml", "/w/b.yaml", "/w/c.tmp",
       "x", "y", "z", "cfg/t1", "cfg/t2", "f1", "f2" >>

\* XxHash64 of the bytes: a fixed fingerprint per string, equal strings give
\* equal fingerprints; no two strings of the vocabulary collide (the values
\* stay far below 2^64).
hash_str(data) ==
    LET i == CHOOSE k \in 1..Len(Vocabulary) : Vocabulary[k] = data
    IN  ((i * 2654435) % 1000003) + 17

EmptyMap == <<>>
MapInsert(m, k, v) == [x \in (DOMAIN m) \cup {k} |-> IF x = k THEN v ELSE m[x]]
MapRemove(m, k) == [x \in (DOMAIN m) \ {k} |-> m[x]]

RECURSIVE Perms(_)
\* every order in which a HashMap / HashSet may iterate over the set s
Perms(s) ==
    IF s = {} THEN {<<>>}
    ELSE UNION {{<<x>> \o p : p \in Perms(s \ {x})} : x \in s}

(***************************************************************************)
(* DocumentEvent                                                           *)
(***************************************************************************)
NewDocument(id, content) == [type |-> "NewDocument", id |-> id, content |-> content]
ContentChanged(id, content) == [type |-> "ContentChanged", id |-> id, content |-> content]
DocumentRemoved(id) == [type |-> "DocumentRemoved", id |-> id, content |-> NoContent]

RECURSIVE RecordSent(_, _)
\* lastContent after the events of out have gone through event_sender, in order
RecordSent(last, out) ==
    IF out = <<>> THEN last
    ELSE LET e == Head(out)
         IN  RecordSent(IF e.type = "DocumentRemoved" THEN MapRemove(last, e.id)
                        ELSE MapInsert(last, e.id, e.content),
                        Tail(out))

RECURSIVE Flatten(_)
Flatten(log) == IF log = <<>> THEN <<>> ELSE Head(log).out \o Flatten(Tail(log))

NoStep == [op |-> "none", arg |-> <<>>, last |-> <<>>, log |-> <<>>]
NoEStep ==
    [op |-> "none", event |-> [type |-> "none", id |-> "-", content |-> <<>>],
     pre |-> {}, out |-> <<>>]

(***************************************************************************)
(* Filesystem adapter: paths, pattern, notifications.                      *)
(***************************************************************************)
watch_path == "/w"
Paths == {"/w/a.yaml", "/w/b.yaml", "/w/c.tmp"}
Contents == {"v1", "v2"}
FileStates == Contents \cup {Absent}
Patterns == {"*.yaml", "[.yaml"}
NoRel == "<not under the root>"

\* Path::strip_prefix(watch_path)
strip_prefix(path) ==
    CASE path = "/w/a.yaml" -> "a.yaml"
      [] path = "/w/b.yaml" -> "b.yaml"
      [] path = "/w/c.tmp" -> "c.tmp"
      [] OTHER -> NoRel

\* glob::Pattern::new: "[.yaml" has an unclosed character class
PatternValid(pattern) == pattern = "*.yaml"

\* glob::Pattern::matches for the pattern "*.yaml"
gp_matches(pattern, rel) == pattern = "*.yaml" /\ rel \in {"a.yaml", "b.yaml"}

match_path(pattern, event) ==
    \E i \in 1..Len(event.paths) :
        LET removed_base == strip_prefix(event.paths[i])
        IN  IF removed_base # NoRel THEN gp_matches(pattern, removed_base) ELSE FALSE

ContentKinds == {"CreateFile", "ModifyData", "CloseWrite"}
OnePathKinds == ContentKinds \cup {"RemoveFile", "RenameTo", "RenameFrom", "Other"}
FsEvents ==
    {[kind |-> k, paths |-> <<p>>] : k \in OnePathKinds, p \in Paths}
    \cup {[kind |-> "RenameBoth", paths |-> pq] :
              pq \in {x \in Paths \X Paths : x[1] # x[2]}}

\* the paths of a notification whose state on disk the handler's run depends on
ReadPaths(event) ==
    CASE event.kind \in ContentKinds \cup {"RenameTo"} -> {event.paths[1]}
      [] event.kind = "RenameBoth" -> {event.paths[1], event.paths[2]}
      [] OTHER -> {}

\* a notification together with the state of its paths when the handler reads
Notifications ==
    UNION {{[ev |-> e, fs |-> f] : f \in [ReadPaths(e) -> FileStates]} : e \in FsEvents}
Batches == UNION {[1..n -> Notifications] : n \in 1..MaxBatch}

\* read_file: the content, or Absent for Err(FileReadError)
read_file(path, fs) == fs[path]

Outcome(hashes, out, err) == [hashes |-> hashes, out |-> out, err |-> err]

\* a faulty FsContent that announces every write of a tracked file, equal
\* hash or not
FsContentAlways(file_hashes_, event, fs) ==
    LET path == event.paths[1]
        content == read_file(path, fs)
        new_hash == hash_str(content)
    IN  IF content = Absent THEN Outcome(file_hashes_, <<>>, "FileReadError")
        ELSE IF path \in DOMAIN file_hashes_
        THEN Outcome(MapInsert(file_hashes_, path, new_hash),
                     <<ContentChanged(path, content)>>, "none")
        ELSE Outcome(MapInsert(file_hashes_, path, new_hash),
                     <<NewDocument(path, content)>>, "none")

\* create / data-modify / close-write
FsContent(file_hashes_, event, fs) ==
    LET path == event.paths[1]
        content == read_file(path, fs)
        new_hash == hash_str(content)
    IN  IF content = Absent THEN Outcome(file_hashes_, <<>>, "FileReadError")
        ELSE IF path \in DOMAIN file_hashes_
        THEN IF file_hashes_[path] # new_hash
             THEN Outcome(MapInsert(file_hashes_, path, new_hash),
                          <<ContentChanged(path, content)>>, "none")
             ELSE Outcome(file_hashes_, <<>>, "none")
        ELSE Outcome(MapInsert(file_hashes_, path, new_hash),
                     <<NewDocument(path, content)>>, "none")

\* a faulty FsRemove that announces the removal and keeps the table entry
FsRemoveKeep(file_hashes_, event) ==
    LET path == event.paths[1]
    IN  IF path \in DOMAIN file_hashes_
        THEN Outcome(file_hashes_, <<DocumentRemoved(path)>>, "none")
        ELSE Outcome(file_hashes_, <<>>, "none")

FsRemove(file_hashes_, event) ==
    LET path == event.paths[1]
    IN  IF path \in DOMAIN file_hashes_
        THEN Outcome(MapRemove(file_hashes_, path), <<DocumentRemoved(path)>>, "none")
        ELSE Outcome(file_hashes_, <<>>, "none")

\* a faulty FsRenameTo that announces changed content and keeps the old hash
FsRenameToStale(file_hashes_, event, fs) ==
    LET path == event.paths[1]
        content == read_file(path, fs)
        new_hash == hash_str(content)
    IN  IF content = Absent THEN Outcome(file_hashes_, <<>>, "FileReadError")
        ELSE IF path \in DOMAIN file_hashes_
        THEN IF file_hashes_[path] # new_hash
             THEN Outcome(file_hashes_, <<ContentChanged(path, content)>>, "none")
             ELSE Outcome(file_hashes_, <<>>, "none")
        ELSE Outcome(MapInsert(file_hashes_, path, new_hash),
                     <<NewDocument(path, content)>>, "none")

FsRenameTo(file_hashes_, event, fs) ==
    LET path == event.paths[1]
        content == read_file(path, fs)
        new_hash == hash_str(content)
    IN  IF content = Absent THEN Outcome(file_hashes_, <<>>, "FileReadError")
        ELSE IF path \in DOMAIN file_hashes_
        THEN IF file_hashes_[path] # new_hash
             THEN Outcome(MapInsert(file_hashes_, path, new_hash),
                          <<ContentChanged(path, content)>>, "none")
             ELSE Outcome(file_hashes_, <<>>, "none")
        ELSE Outcome(MapInsert(file_hashes_, path, new_hash),
                     <<NewDocument(path, content)>>, "none")

\* a faulty FsRenameFrom that announces the removal and keeps the table entry
FsRenameFromKeep(file_hashes_, event) ==
    LET path == event.paths[1]
    IN  IF path \in DOMAIN file_hashes_
        THEN Outcome(file_hashes_, <<DocumentRemoved(path)>>, "none")
        ELSE Outcome(file_hashes_, <<>>, "none")

FsRenameFrom(file_hashes_, event) ==
    LET path == event.paths[1]
    IN  IF path \in DOMAIN file_hashes_
        THEN Outcome(MapRemove(file_hashes_, path), <<DocumentRemoved(path)>>, "none")
        ELSE Outcome(file_hashes_, <<>>, "none")

\* the source is dropped and announced; then the content is read at from
FsRenameBoth(file_hashes_, event, fs) ==
    LET from == event.paths[1]
        to == event.paths[2]
        removed == MapRemove(file_hashes_, from)
        content == read_file(from, fs)
    IN  IF from \in DOMAIN file_hashes_
        THEN IF content = Absent
             THEN Outcome(removed, <<DocumentRemoved(from)>>, "FileReadError")
             ELSE Outcome(MapInsert(removed, to, hash_str(content)),
                          <<DocumentRemoved(from), NewDocument(to, content)>>, "none")
        ELSE Outcome(file_hashes_, <<>>, "none")

\* the body of handle_fs_event's loop for one event of the batch
FsClassify(file_hashes_, pattern, event, fs) ==
    IF ~match_path(pattern, event) THEN Outcome(file_hashes_, <<>>, "none")
    ELSE CASE event.kind \in ContentKinds -> FsContent(file_hashes_, event, fs)
           [] event.kind = "RemoveFile" -> FsRemove(file_hashes_, event)
           [] event.kind = "RenameTo" -> FsRenameTo(file_hashes_, event, fs)
           [] event.kind = "RenameFrom" -> FsRenameFrom(file_hashes_, event)
           [] event.kind = "RenameBoth" -> FsRenameBoth(file_hashes_, event, fs)
           [] OTHER -> Outcome(file_hashes_, <<>>, "none")

\* history: one observation of a step (the notification, what was seen of the
\* source, the table before and after, the events sent, the error returned)
LogEntry(ev, seen, pre, o) ==
    [ev |-> ev, seen |-> seen, pre |-> pre, post |-> o.hashes, out |-> o.out,
     err |-> o.err]

RECURSIVE handle_fs_event(_, _, _, _)
\* the events of one batch in order; a read error returns at once (the ?)
handle_fs_event(batch, file_hashes_, pattern, log) ==
    IF batch = <<>> THEN [hashes |-> file_hashes_, log |-> log, err |-> "none"]
    ELSE LET n == Head(batch)
             o == FsClassify(file_hashes_, pattern, n.ev, n.fs)
             log2 == Append(log, LogEntry(n.ev, n.fs, file_hashes_, o))
         IN  IF o.err # "none" THEN [hashes |-> o.hashes, log |-> log2, err |-> o.err]
             ELSE handle_fs_event(Tail(batch), o.hashes, pattern, log2)

\* a faulty find_matching_files that leaves out gp.matches
find_all_files(pattern, disk) ==
    Perms({p \in Paths : disk[p] # Absent /\ strip_prefix(p) # NoRel})

\* WalkDir under the root, is_file, strip_prefix, gp.matches: in directory order
find_matching_files(pattern, disk) ==
    Perms({p \in Paths : disk[p] # Absent /\ strip_prefix(p) # NoRel
                         /\ gp_matches(pattern, strip_prefix(p))})

RECURSIVE initial_file_search(_, _, _, _)
\* read, record and announce each file found; a read error returns at once
initial_file_search(todo, disk, file_hashes_, log) ==
    IF todo = <<>> THEN [hashes |-> file_hashes_, log |-> log, err |-> "none"]
    ELSE LET file == Head(todo)
             content == read_file(file, disk)
             ev == [kind |-> "Scan", paths |-> <<file>>]
             fs == [p \in {file} |-> content]
         IN  IF content = Absent
             THEN [hashes |-> file_hashes_,
                   log |-> Append(log, LogEntry(ev, fs, file_hashes_,
                                   Outcome(file_hashes_, <<>>, "FileReadError"))),
                   err |-> "FileReadError"]
             ELSE LET o == Outcome(MapInsert(file_hashes_, file, hash_str(content)),
                                   <<NewDocument(file, content)>>, "none")
                  IN  initial_file_search(Tail(todo), disk, o.hashes,
                                          Append(log, LogEntry(ev, fs, file_hashes_, o)))

(***************************************************************************)
(* MQTT adapter.                                                           *)
(***************************************************************************)
Topics == {"cfg/t1", "cfg/t2"}
Payloads == {"", "p1", "p2", InvalidUtf8}

\* what eventloop.poll() can yield (Outgoing::Disconnect is never produced: the
\* task owns the client and never disconnects it)
MqttPolls ==
    {[kind |-> "Publish", topic |-> t, payload |-> p] : t \in Topics, p \in Payloads}
    \cup {[kind |-> "ConnAck", topic |-> "-", payload |-> p] : p \in {"ok", "ClientError"}}
    \cup {[kind |-> k, topic |-> "-", payload |-> "-"] : k \in {"Other", "Error"}}

\* String::from_utf8
from_utf8(payload) == IF payload = InvalidUtf8 THEN Absent ELSE payload

\* a faulty MqttPublish that announces changed content without recording its
\* hash
MqttPublishStale(hashes, topic, payload) ==
    IF payload = ""
    THEN IF topic \in DOMAIN hashes
         THEN Outcome(MapRemove(hashes, topic), <<DocumentRemoved(topic)>>, "none")
         ELSE Outcome(hashes, <<>>, "none")
    ELSE LET content == from_utf8(payload)
             new_hash == hash_str(content)
         IN  IF content = Absent THEN Outcome(hashes, <<>>, "none")
             ELSE IF topic \in DOMAIN hashes
             THEN IF hashes[topic] # new_hash
                  THEN Outcome(hashes, <<ContentChanged(topic, content)>>, "none")
                  ELSE Outcome(hashes, <<>>, "none")
             ELSE Outcome(MapInsert(hashes, topic, new_hash),
                          <<NewDocument(topic, content)>>, "none")

MqttPublish(hashes, topic, payload) ==
    IF payload = ""
    THEN IF topic \in DOMAIN hashes
         THEN Outcome(MapRemove(hashes, topic), <<DocumentRemoved(topic)>>, "none")
         ELSE Outcome(hashes, <<>>, "none")
    ELSE LET content == from_utf8(payload)
             new_hash == hash_str(content)
         IN  IF content = Absent THEN Outcome(hashes, <<>>, "none")
             ELSE IF topic \in DOMAIN hashes
             THEN IF hashes[topic] # new_hash
                  THEN Outcome(MapInsert(hashes, topic, new_hash),
                               <<ContentChanged(topic, content)>>, "none")
                  ELSE Outcome(hashes, <<>>, "none")
             ELSE Outcome(MapInsert(hashes, topic, new_hash),
                          <<NewDocument(topic, content)>>, "none")

\* one iteration of the select loop on the poll branch
MqttOnPoll(hashes, ev) ==
    CASE ev.kind = "Publish" -> MqttPublish(hashes, ev.topic, ev.payload)
      [] ev.kind = "ConnAck" ->
            Outcome(hashes, <<>>, IF ev.payload = "ok" THEN "none" ELSE "MqttClient")
      [] ev.kind = "Disconnect" -> Outcome(hashes, <<>>, "break")
      [] OTHER -> Outcome(hashes, <<>>, "none")

(***************************************************************************)
(* ConfigMap adapter.                                                      *)
(***************************************************************************)
configmap_name == "cfg"
Keys == {"x", "y", "z"}
KeyOrder == <<"x", "y", "z">>
Values == {"1", "2", "3"}
BinaryKeys == {"y"}
BinaryValues == {"3", InvalidUtf8}

PartialMaps(K, V) == UNION {[S -> V] : S \in SUBSET K}
DataMaps == PartialMaps(Keys, Values)

ConfigMaps ==
    {[name |-> n, data |-> d, binary_data |-> b] :
        n \in {configmap_name, "other"},
        d \in DataMaps,
        b \in PartialMaps(BinaryKeys, BinaryValues)}

NoConfigMap == [name |-> "-", data |-> EmptyMap, binary_data |-> EmptyMap]

\* what stream.try_next() can yield
CmStreamEvents ==
    {[kind |-> k, cm |-> c] : k \in {"Apply", "InitApply", "Delete"}, c \in ConfigMaps}
    \cup {[kind |-> k, cm |-> NoConfigMap] : k \in {"Init", "InitDone", "End", "Error"}}

\* data, then the binary_data entries that decode as UTF-8 (same key: replaced)
combine_configmap_data(cm) ==
    LET valid == {k \in DOMAIN cm.binary_data : from_utf8(cm.binary_data[k]) # Absent}
    IN  [k \in (DOMAIN cm.data) \cup valid |->
            IF k \in valid THEN cm.binary_data[k] ELSE cm.data[k]]

\* the keys of a BTreeMap in iteration order (ascending)
SortedKeys(m) == SelectSeq(KeyOrder, LAMBDA k : k \in DOMAIN m)

RECURSIVE CmNewAndChanged(_, _, _)
\* the first loop of handle_configmap_update
CmNewAndChanged(keys, new_data, file_hashes_) ==
    IF keys = <<>> THEN <<>>
    ELSE LET key == Head(keys)
             value == new_data[key]
             new_hash == hash_str(value)
             sent == IF key \in DOMAIN file_hashes_
                     THEN IF file_hashes_[key] # new_hash
                          THEN <<ContentChanged(key, value)>>
                          ELSE <<>>
                     ELSE <<NewDocument(key, value)>>
         IN  sent \o CmNewAndChanged(Tail(keys), new_data, file_hashes_)

\* the second loop: file_hashes.keys() in the HashMap's order
CmRemoved(new_data, file_hashes_) ==
    {[i \in 1..Len(p) |-> DocumentRemoved(p[i])] :
        p \in Perms({k \in DOMAIN file_hashes_ : k \notin DOMAIN new_data})}

\* a faulty handle_configmap_update that merges the new hashes into the table
\* instead of replacing it
handle_configmap_update_merge(new_data, file_hashes_) ==
    LET new_hashes == [k \in DOMAIN new_data \cup DOMAIN file_hashes_ |->
                          IF k \in DOMAIN new_data THEN hash_str(new_data[k])
                          ELSE file_hashes_[k]]
        first == CmNewAndChanged(SortedKeys(new_data), new_data, file_hashes_)
    IN  {Outcome(new_hashes, first \o removed, "none") :
            removed \in CmRemoved(new_data, file_hashes_)}

\* a faulty handle_configmap_update that runs the removal loop first
handle_configmap_update_removed_first(new_data, file_hashes_) ==
    LET new_hashes == [k \in DOMAIN new_data |-> hash_str(new_data[k])]
        first == CmNewAndChanged(SortedKeys(new_data), new_data, file_hashes_)
    IN  {Outcome(new_hashes, removed \o first, "none") :
            removed \in CmRemoved(new_data, file_hashes_)}

\* every outcome of handle_configmap_update (one per HashMap iteration order)
handle_configmap_update(new_data, file_hashes_) ==
    LET new_hashes == [k \in DOMAIN new_data |-> hash_str(new_data[k])]
        first == CmNewAndChanged(SortedKeys(new_data), new_data, file_hashes_)
    IN  {Outcome(new_hashes, first \o removed, "none") :
            removed \in CmRemoved(new_data, file_hashes_)}

\* a faulty Delete arm that announces the removals and leaves out clear()
CmDeleteKeep(file_hashes_) ==
    {Outcome(file_hashes_, [i \in 1..Len(p) |-> DocumentRemoved(p[i])], "none") :
        p \in Perms(DOMAIN file_hashes_)}

\* the Delete arm: one DocumentRemoved per tracked key, then clear()
CmDelete(file_hashes_) ==
    {Outcome(EmptyMap, [i \in 1..Len(p) |-> DocumentRemoved(p[i])], "none") :
        p \in Perms(DOMAIN file_hashes_)}

\* one iteration of the select loop on the stream branch
CmOnStream(file_hashes_, ev) ==
    CASE ev.kind \in {"Apply", "InitApply"} ->
            IF ev.cm.name = configmap_name
            THEN handle_configmap_update(combine_configmap_data(ev.cm), file_hashes_)
            ELSE {Outcome(file_hashes_, <<>>, "none")}
      [] ev.kind = "Delete" ->
            IF ev.cm.name = configmap_name
            THEN CmDelete(file_hashes_)
            ELSE {Outcome(file_hashes_, <<>>, "none")}
      [] ev.kind = "End" -> {Outcome(file_hashes_, <<>>, "break")}
      [] OTHER -> {Outcome(file_hashes_, <<>>, "none")}

(***************************************************************************)
(* The adapter task and the owner of its WatcherHandle.                    *)
(***************************************************************************)
Backends == {"file", "configmap", "mqtt"}
NoPattern == "-"

\* the handle, the channels and the histories right after run_*_watcher
InitHandle ==
    /\ handle = "some"
    /\ stop_sender = FALSE
    /\ task_handle = "some"
    /\ calls = <<>>
    /\ receiver = "alive"
    /\ channel = <<>>
    /\ outbox = <<>>
    /\ pending = "none"
    /\ decided = <<>>
    /\ received = <<>>

Init ==
    /\ backend \in Backends
    /\ pc = "Created"
    /\ result = "none"
    /\ command = <<>>
    /\ owner = "constructed"
    /\ file_pattern \in (IF backend = "file" THEN Patterns ELSE {NoPattern})
    /\ files = <<>>
    /\ file_hashes = EmptyMap
    /\ lastContent = EmptyMap
    /\ step = NoStep
    /\ epc = "Running"
    /\ item_hashes = {}
    /\ estep = NoEStep
    /\ InitHandle

\* WatcherHandle::start: send Start on the command channel
ApiStart ==
    /\ owner = "constructed"
    /\ pc # "Stopped"
    /\ Len(command) < CommandCap
    /\ command' = Append(command, "Start")
    /\ owner' = "started"
    /\ UNCHANGED <<backend, pc, result, file_pattern, files, file_hashes, lastContent, step>>
    /\ UNCHANGED <<evars, xvars>>

\* WatcherHandle::stop, up to the send: Stop goes on the command channel, or the
\* send fails because the task has ended and dropped the receiver
ApiStopSend ==
    /\ owner \in {"constructed", "started"}
    /\ IF pc = "Stopped"
       THEN /\ owner' = "stop_send_error"
            /\ UNCHANGED command
       ELSE /\ Len(command) < CommandCap
            /\ command' = Append(command, "Stop")
            /\ owner' = "stopping"
    /\ UNCHANGED <<backend, pc, result, file_pattern, files, file_hashes, lastContent, step>>
    /\ UNCHANGED <<evars, xvars>>

\* WatcherHandle::stop, the rest: handle.take() and the await of the JoinHandle
ApiStopJoin ==
    /\ owner = "stopping"
    /\ pc = "Stopped"
    /\ owner' = "stop_returned"
    /\ UNCHANGED <<backend, pc, result, command, file_pattern, files, file_hashes,
                   lastContent, step>>
    /\ UNCHANGED <<evars, xvars>>

\* the owner drops the WatcherHandle, and the command_sender with it: the
\* command channel is closed once it is empty
ApiDrop ==
    /\ owner \in {"constructed", "started", "stop_send_error", "stop_returned"}
    /\ owner' = "dropped"
    /\ UNCHANGED <<backend, pc, result, command, file_pattern, files, file_hashes,
                   lastContent, step>>
    /\ UNCHANGED <<evars, xvars>>

\* the task ends: its future returns r
Finish(r) ==
    /\ pc' = "Stopped"
    /\ result' = r

\* a faulty AwaitStart that takes any first command for the start command
AwaitStartAnyCommand(next_pc) ==
    /\ pc = "Created"
    /\ command # <<>>
    /\ command' = Tail(command)
    /\ pc' = next_pc
    /\ step' = NoStep
    /\ UNCHANGED <<backend, result, owner, file_pattern, files, file_hashes, lastContent>>
    /\ UNCHANGED <<evars, xvars>>

\* a faulty AwaitStart that takes the closed command channel for a start
AwaitStartEager(next_pc) ==
    /\ pc = "Created"
    /\ IF command # <<>>
       THEN /\ command' = Tail(command)
            /\ IF Head(command) = "Stop"
               THEN Finish("Ok")
               ELSE pc' = next_pc /\ UNCHANGED result
            /\ step' = NoStep
       ELSE /\ owner = "dropped"
            /\ pc' = next_pc
            /\ step' = NoStep
            /\ UNCHANGED <<command, result>>
    /\ UNCHANGED <<backend, owner, file_pattern, files, file_hashes, lastContent>>
    /\ UNCHANGED <<evars, xvars>>

\* command_receiver.recv() before the loop, in each run_*_watcher: Start goes
\* on, Stop returns Ok(()), and so does None once the handle is dropped and
\* the channel is empty
AwaitStart(next_pc) ==
    /\ pc = "Created"
    /\ IF command # <<>>
       THEN /\ command' = Tail(command)
            /\ IF Head(command) = "Stop"
               THEN Finish("Ok")
               ELSE pc' = next_pc /\ UNCHANGED result
            /\ step' = NoStep
       ELSE /\ owner = "dropped"
            /\ Finish("Ok")
            /\ step' = [NoStep EXCEPT !.op = "recv None"]
            /\ UNCHANGED command
    /\ UNCHANGED <<backend, owner, file_pattern, files, file_hashes, lastContent>>
    /\ UNCHANGED <<evars, xvars>>

\* the command branch of the select loop, in each run_*_watcher
RecvCommand ==
    /\ pc = "Running"
    /\ command # <<>>
    /\ command' = Tail(command)
    /\ IF Head(command) = "Stop"
       THEN Finish("Ok")
       ELSE UNCHANGED <<pc, result>>
    /\ step' = NoStep
    /\ UNCHANGED <<backend, owner, file_pattern, files, file_hashes, lastContent>>
    /\ UNCHANGED <<evars, xvars>>

\* the source branch of the select loop: the table, the events sent and the
\* step's log; an error or a break ends the task
Advance(op, hashes, log, err) ==
    /\ file_hashes' = hashes
    /\ lastContent' = RecordSent(lastContent, Flatten(log))
    /\ step' = [op |-> op, arg |-> <<>>, last |-> lastContent, log |-> log]
    /\ IF err = "none" THEN pc' = "Iterated" /\ UNCHANGED result
       ELSE Finish(IF err = "break" THEN "Ok" ELSE err)
    /\ UNCHANGED <<backend, command, owner, file_pattern, files>>
    /\ UNCHANGED <<evars, xvars>>

\* the end of the loop body: back to the select
Loop ==
    /\ pc = "Iterated"
    /\ pc' = "Running"
    /\ step' = NoStep
    /\ UNCHANGED <<backend, result, command, owner, file_pattern, files, file_hashes,
                   lastContent>>
    /\ UNCHANGED <<evars, xvars>>

------------------------------------------------------------------------------
FileAwaitStart == backend = "file" /\ AwaitStart("Starting")

\* initial_file_search, first half: the pattern is compiled and the tree walked
FileFindMatchingFiles ==
    /\ backend = "file"
    /\ pc = "Starting"
    /\ IF ~PatternValid(file_pattern)
       THEN /\ Finish("Pattern")
            /\ step' = [NoStep EXCEPT !.op = "Pattern::new"]
            /\ UNCHANGED files
       ELSE /\ \E disk \in [Paths -> FileStates] :
                  /\ files' \in find_matching_files(file_pattern, disk)
                  /\ step' = [op |-> "find_matching_files", arg |-> disk,
                               last |-> lastContent, log |-> <<>>]
            /\ pc' = "Scanning"
            /\ UNCHANGED result
    /\ UNCHANGED <<backend, command, owner, file_pattern, file_hashes, lastContent>>
    /\ UNCHANGED <<evars, xvars>>

\* initial_file_search, second half, then create_async_watcher and watch()
FileInitialScan ==
    /\ backend = "file"
    /\ pc = "Scanning"
    /\ \E disk \in [{files[i] : i \in 1..Len(files)} -> FileStates],
          watch_ok \in BOOLEAN :
          LET r == initial_file_search(files, disk, EmptyMap, <<>>)
          IN  /\ file_hashes' = r.hashes
              /\ lastContent' = RecordSent(lastContent, Flatten(r.log))
              /\ step' = [op |-> "initial_file_search", arg |-> step.arg,
                           last |-> lastContent, log |-> r.log]
              /\ IF r.err # "none" THEN Finish(r.err)
                 ELSE IF ~watch_ok THEN Finish("Notify")
                 ELSE pc' = "Iterated" /\ UNCHANGED result
    /\ files' = <<>>
    /\ UNCHANGED <<backend, command, owner, file_pattern>>
    /\ UNCHANGED <<evars, xvars>>

\* the loop's rx branch with Ok(events)
FileHandleFsEvent ==
    /\ backend = "file"
    /\ pc = "Running"
    /\ \E batch \in Batches :
          LET r == handle_fs_event(batch, file_hashes, file_pattern, <<>>)
          IN  Advance("handle_fs_event", r.hashes, r.log, r.err)

\* the loop's rx branch with Err(errors): logged
FileWatchError ==
    /\ backend = "file"
    /\ pc = "Running"
    /\ Advance("handle_fs_event", file_hashes, <<>>, "none")

FileRecvCommand == backend = "file" /\ RecvCommand

------------------------------------------------------------------------------
MqttAwaitStart == backend = "mqtt" /\ AwaitStart("Running")

MqttPoll ==
    /\ backend = "mqtt"
    /\ pc = "Running"
    /\ \E ev \in MqttPolls :
          LET o == MqttOnPoll(file_hashes, ev)
          IN  Advance("poll", o.hashes, <<LogEntry(ev, ev.payload, file_hashes, o)>>,
                      o.err)

MqttRecvCommand == backend = "mqtt" /\ RecvCommand

------------------------------------------------------------------------------
\* the start command, then Client::try_default()
CmAwaitStart ==
    /\ backend = "configmap"
    /\ \/ AwaitStart("Running")
       \/ /\ pc = "Created"
          /\ command # <<>>
          /\ Head(command) = "Start"
          /\ command' = Tail(command)
          /\ Finish("Ok")
          /\ step' = [NoStep EXCEPT !.op = "Client::try_default"]
          /\ UNCHANGED <<backend, owner, file_pattern, files, file_hashes, lastContent>>
          /\ UNCHANGED <<evars, xvars>>

CmStream ==
    /\ backend = "configmap"
    /\ pc = "Running"
    /\ \E ev \in CmStreamEvents :
          \E o \in CmOnStream(file_hashes, ev) :
              Advance("try_next", o.hashes,
                      <<LogEntry([kind |-> ev.kind, name |-> ev.cm.name],
                                 IF ev.cm.name = configmap_name
                                 THEN combine_configmap_data(ev.cm) ELSE EmptyMap,
                                 file_hashes, o)>>,
                      o.err)

CmRecvCommand == backend = "configmap" /\ RecvCommand

------------------------------------------------------------------------------
Next ==
    \/ ApiStart
    \/ ApiStopSend
    \/ ApiStopJoin
    \/ ApiDrop
    \/ FileAwaitStart
    \/ FileFindMatchingFiles
    \/ FileInitialScan
    \/ FileHandleFsEvent
    \/ FileWatchError
    \/ FileRecvCommand
    \/ MqttAwaitStart
    \/ MqttPoll
    \/ MqttRecvCommand
    \/ CmAwaitStart
    \/ CmStream
    \/ CmRecvCommand
    \/ Loop

Spec == Init /\ [][Next]_vars

(***************************************************************************)
(* The control layer: an owner that calls start() and stop() on the handle *)
(* any number of times, in any order, one call after the other.            *)
(***************************************************************************)
\* a call that returned
Call(api, ret, at) == [api |-> api, ret |-> ret, at |-> at]

\* handle.await??: the task's Ok(()) or its WatcherError
JoinResult == result

\* WatcherHandle::start: command_sender.send(Start).await?, then Ok(()); the
\* send waits for room and fails once the task has dropped the receiver
CallStart ==
    /\ owner # "stopping"
    /\ Len(calls) < MaxCalls
    /\ IF pc = "Stopped"
       THEN /\ calls' = Append(calls, Call("start", "SendError", pc))
            /\ UNCHANGED command
       ELSE /\ Len(command) < CommandCap
            /\ command' = Append(command, "Start")
            /\ calls' = Append(calls, Call("start", "Ok", pc))
    /\ owner' = "started"
    /\ UNCHANGED <<backend, pc, result, file_pattern, files, file_hashes, lastContent,
                   step, handle>>
    /\ UNCHANGED <<evars, svars>>

\* WatcherHandle::stop, the send: command_sender.send(Stop).await?
CallStopSend ==
    /\ owner # "stopping"
    /\ Len(calls) < MaxCalls
    /\ IF pc = "Stopped"
       THEN /\ calls' = Append(calls, Call("stop", "SendError", pc))
            /\ owner' = "stop_send_error"
            /\ UNCHANGED command
       ELSE /\ Len(command) < CommandCap
            /\ command' = Append(command, "Stop")
            /\ owner' = "stopping"
            /\ UNCHANGED calls
    /\ UNCHANGED <<backend, pc, result, file_pattern, files, file_hashes, lastContent,
                   step, handle>>
    /\ UNCHANGED <<evars, svars>>

\* WatcherHandle::stop, after the send: handle.take(), handle.await??, or the
\* warning when the handle was taken before
CallStopJoin ==
    /\ owner = "stopping"
    /\ IF handle = "some"
       THEN /\ pc = "Stopped"
            /\ handle' = "taken"
            /\ calls' = Append(calls, Call("stop", JoinResult, "joined"))
       ELSE /\ calls' = Append(calls, Call("stop", "Ok", "taken"))
            /\ UNCHANGED handle
    /\ owner' = "stop_returned"
    /\ UNCHANGED <<backend, pc, result, command, file_pattern, files, file_hashes,
                   lastContent, step>>
    /\ UNCHANGED <<evars, svars>>

NextControl ==
    \/ CallStart
    \/ CallStopSend
    \/ CallStopJoin
    \/ FileAwaitStart
    \/ FileFindMatchingFiles
    \/ FileInitialScan
    \/ FileHandleFsEvent
    \/ FileWatchError
    \/ FileRecvCommand
    \/ MqttAwaitStart
    \/ MqttPoll
    \/ MqttRecvCommand
    \/ CmAwaitStart
    \/ CmStream
    \/ CmRecvCommand
    \/ Loop

SpecControl == Init /\ [][NextControl]_vars

(***************************************************************************)
(* Item diff engine.                                                       *)
(***************************************************************************)
DocNames == {"f1", "f2"}
\* the text between two separators of a document: an item, an item with
\* surrounding whitespace, whitespace only, an item that does not deserialize
Segments == {"a", "b", "c", " a ", "  ", "!"}
Documents == UNION {[1..n -> Segments] : n \in 0..MaxItems}

\* str::trim
trim(text) ==
    CASE text = " a " -> "a"
      [] text = "  " -> ""
      [] OTHER -> text

\* Tokenizer::tokenize (YamlTokenizer, JsonTokenizer): the segments between the
\* separators, trimmed, without the empty ones
tokenize(content) ==
    SelectSeq([i \in 1..Len(content) |-> trim(content[i])], LAMBDA t : t # "")

\* the caller's deserialize: Absent for Err
deserialize(doc) ==
    CASE doc = "a" -> "A"
      [] doc = "b" -> "B"
      [] doc = "c" -> "C"
      [] OTHER -> Absent

ConfigItemHash(filename_hash, item_hash) == <<filename_hash, item_hash>>

MarkNewDocument(filename) ==
    [type |-> "NewDocument", hash |-> <<hash_str(filename)>>, data |-> filename]
MarkRemoveDocument(filename) ==
    [type |-> "RemoveDocument", hash |-> <<hash_str(filename)>>, data |-> NoContent]
ItemNew(hash, item) == [type |-> "New", hash |-> hash, data |-> item]
ItemRemoved(hash) == [type |-> "Removed", hash |-> hash, data |-> NoContent]

DocumentEvents ==
    {NewDocument(f, d) : f \in DocNames, d \in Documents}
    \cup {ContentChanged(f, d) : f \in DocNames, d \in Documents}
    \cup {[type |-> "DocumentRemoved", id |-> f, content |-> <<>>] : f \in DocNames}

\* a faulty new_items that gives up the whole document when one of its items
\* does not deserialize
NewItemsAllOrNothing(content) ==
    LET docs == SelectSeq([i \in 1..Len(tokenize(content)) |-> trim(tokenize(content)[i])],
                          LAMBDA d : d # "")
    IN  IF \E i \in 1..Len(docs) : deserialize(docs[i]) = Absent THEN <<>>
        ELSE [h \in {hash_str(docs[i]) : i \in 1..Len(docs)} |->
                 deserialize(docs[CHOOSE i \in 1..Len(docs) : hash_str(docs[i]) = h])]

\* new_items: item hash -> deserialized item, of the trimmed, non-empty items
\* that deserialize
NewItems(content) ==
    LET docs == SelectSeq([i \in 1..Len(tokenize(content)) |-> trim(tokenize(content)[i])],
                          LAMBDA d : d # "")
        ok == {i \in 1..Len(docs) : deserialize(docs[i]) # Absent}
    IN  [h \in {hash_str(docs[i]) : i \in ok} |->
            deserialize(docs[CHOOSE i \in ok : hash_str(docs[i]) = h])]

EOutcome(hashes, out) == [hashes |-> hashes, out |-> out]

\* a faulty file_removed whose retain closure keeps what it reports
file_removed_kept(filename, item_hashes_) ==
    LET filepath_hash == hash_str(filename)
        gone == {h \in item_hashes_ : h[1] = filepath_hash}
    IN  {EOutcome(item_hashes_, [i \in 1..Len(p) |-> ItemRemoved(p[i])]) :
            p \in Perms(gone)}

\* a faulty file_removed that compares nothing: every entry goes
file_removed_all(filename, item_hashes_) ==
    {EOutcome({}, [i \in 1..Len(p) |-> ItemRemoved(p[i])]) : p \in Perms(item_hashes_)}

\* every outcome of file_removed (one per iteration order of the HashSet)
file_removed(filename, item_hashes_) ==
    LET filepath_hash == hash_str(filename)
        gone == {h \in item_hashes_ : h[1] = filepath_hash}
    IN  {EOutcome(item_hashes_ \ gone, [i \in 1..Len(p) |-> ItemRemoved(p[i])]) :
            p \in Perms(gone)}

\* a faulty process_file that sends New for every item of the document, in the
\* set before or not
process_file_all_new(filename, content, item_hashes_) ==
    LET filename_hash == hash_str(filename)
        new_items == NewItems(content)
        gone == {h \in item_hashes_ : h[1] = filename_hash /\ h[2] \notin DOMAIN new_items}
        kept == item_hashes_ \ gone
    IN  {EOutcome(kept \cup {ConfigItemHash(filename_hash, h) : h \in DOMAIN new_items},
                  [i \in 1..Len(r) |-> ItemRemoved(r[i])]
                  \o [i \in 1..Len(a) |->
                        ItemNew(ConfigItemHash(filename_hash, a[i]), new_items[a[i]])]) :
            r \in Perms(gone), a \in Perms(DOMAIN new_items)}

\* a faulty process_file whose retain closure keeps the entries it reports as
\* removed
process_file_keep_removed(filename, content, item_hashes_) ==
    LET filename_hash == hash_str(filename)
        new_items == NewItems(content)
        gone == {h \in item_hashes_ : h[1] = filename_hash /\ h[2] \notin DOMAIN new_items}
        added == {h \in DOMAIN new_items : ConfigItemHash(filename_hash, h) \notin item_hashes_}
    IN  {EOutcome(item_hashes_ \cup {ConfigItemHash(filename_hash, h) : h \in DOMAIN new_items},
                  [i \in 1..Len(r) |-> ItemRemoved(r[i])]
                  \o [i \in 1..Len(a) |->
                        ItemNew(ConfigItemHash(filename_hash, a[i]), new_items[a[i]])]) :
            r \in Perms(gone), a \in Perms(added)}

\* every outcome of process_file (one per iteration order of the HashSet and of
\* the HashMap new_items)
process_file(filename, content, item_hashes_) ==
    LET filename_hash == hash_str(filename)
        new_items == NewItems(content)
        gone == {h \in item_hashes_ : h[1] = filename_hash /\ h[2] \notin DOMAIN new_items}
        kept == item_hashes_ \ gone
        added == {h \in DOMAIN new_items : ConfigItemHash(filename_hash, h) \notin kept}
    IN  {EOutcome(kept \cup {ConfigItemHash(filename_hash, h) : h \in DOMAIN new_items},
                  [i \in 1..Len(r) |-> ItemRemoved(r[i])]
                  \o [i \in 1..Len(a) |->
                        ItemNew(ConfigItemHash(filename_hash, a[i]), new_items[a[i]])]) :
            r \in Perms(gone), a \in Perms(added)}

\* a faulty handle_config_file_event that announces the document again when
\* its content changed
handle_config_file_event_remark(event, item_hashes_) ==
    CASE event.type \in {"NewDocument", "ContentChanged"} ->
            {EOutcome(o.hashes, <<MarkNewDocument(event.id)>> \o o.out) :
                o \in process_file(event.id, event.content, item_hashes_)}
      [] OTHER ->
            {EOutcome(o.hashes, Append(o.out, MarkRemoveDocument(event.id))) :
                o \in file_removed(event.id, item_hashes_)}

\* a faulty handle_config_file_event that pushes the NewDocument marker after
\* the item events
handle_config_file_event_marker_last(event, item_hashes_) ==
    CASE event.type = "NewDocument" ->
            {EOutcome(o.hashes, Append(o.out, MarkNewDocument(event.id))) :
                o \in process_file(event.id, event.content, item_hashes_)}
      [] event.type = "ContentChanged" ->
            process_file(event.id, event.content, item_hashes_)
      [] OTHER ->
            {EOutcome(o.hashes, Append(o.out, MarkRemoveDocument(event.id))) :
                o \in file_removed(event.id, item_hashes_)}

handle_config_file_event(event, item_hashes_) ==
    CASE event.type = "NewDocument" ->
            {EOutcome(o.hashes, <<MarkNewDocument(event.id)>> \o o.out) :
                o \in process_file(event.id, event.content, item_hashes_)}
      [] event.type = "ContentChanged" ->
            process_file(event.id, event.content, item_hashes_)
      [] OTHER ->
            {EOutcome(o.hashes, Append(o.out, MarkRemoveDocument(event.id))) :
                o \in file_removed(event.id, item_hashes_)}

\* the engine task with any DocumentEvent stream in front of it
InitEngine ==
    /\ backend = "any"
    /\ pc = "Running"
    /\ result = "none"
    /\ command = <<>>
    /\ owner = "started"
    /\ file_pattern = NoPattern
    /\ files = <<>>
    /\ file_hashes = EmptyMap
    /\ lastContent = EmptyMap
    /\ step = NoStep
    /\ epc = "Running"
    /\ item_hashes = {}
    /\ estep = NoEStep
    /\ InitHandle

\* the receiver branch of the engine's select loop, and the sends after it
EngineRecv ==
    /\ epc = "Running"
    /\ \E event \in DocumentEvents :
          \E o \in handle_config_file_event(event, item_hashes) :
              /\ item_hashes' = o.hashes
              /\ estep' = [op |-> "handle_config_file_event", event |-> event,
                           pre |-> item_hashes, out |-> o.out]
    /\ epc' = "Iterated"
    /\ UNCHANGED <<avars, hvars, xvars>>

\* the end of the engine's loop body: back to the select
EngineLoop ==
    /\ epc = "Iterated"
    /\ epc' = "Running"
    /\ estep' = NoEStep
    /\ UNCHANGED <<item_hashes, hvars>>
    /\ UNCHANGED <<avars, xvars>>

NextEngine ==
    \/ EngineRecv
    \/ EngineLoop

SpecEngine == InitEngine /\ [][NextEngine]_vars

(***************************************************************************)
(* The event channel: a producing task (an adapter, or the engine behind   *)
(* any DocumentEvent stream), its bounded channel and the Receiver that    *)
(* run_*_watcher returned. A handler's sends are steps of their own: each  *)
(* send waits for room in the channel and fails once the Receiver is       *)
(* dropped.                                                                *)
(***************************************************************************)
InitSend == Init \/ InitEngine

\* the handler has run up to its sends: the table is updated, the events wait
\* in the outbox, err is how the handler ends after them
StartSending(next_pc, hashes, out, err) ==
    /\ Len(decided) + Len(out) <= MaxSent
    /\ file_hashes' = hashes
    /\ outbox' = out
    /\ decided' = decided \o out
    /\ pending' = err
    /\ pc' = next_pc
    /\ step' = NoStep
    /\ UNCHANGED <<backend, result, command, owner, file_pattern, lastContent>>
    /\ UNCHANGED <<evars, cvars, receiver, channel, received>>

\* initial_file_search after the walk, then create_async_watcher and watch()
SendFileInitialScan ==
    /\ backend = "file"
    /\ pc = "Scanning"
    /\ Len(decided) < MaxSent
    /\ \E disk \in [{files[i] : i \in 1..Len(files)} -> FileStates],
          watch_ok \in BOOLEAN :
          LET r == initial_file_search(files, disk, EmptyMap, <<>>)
          IN  StartSending("ScanSending", r.hashes, Flatten(r.log),
                           IF r.err # "none" THEN r.err
                           ELSE IF ~watch_ok THEN "Notify" ELSE "none")
    /\ files' = <<>>

\* the loop's rx branch with Ok(events)
SendFileHandleFsEvent ==
    /\ backend = "file"
    /\ pc = "Running"
    /\ Len(decided) < MaxSent
    /\ \E batch \in Batches :
          LET r == handle_fs_event(batch, file_hashes, file_pattern, <<>>)
          IN  StartSending("Sending", r.hashes, Flatten(r.log), r.err)
    /\ UNCHANGED files

SendMqttPoll ==
    /\ backend = "mqtt"
    /\ pc = "Running"
    /\ Len(decided) < MaxSent
    /\ \E ev \in MqttPolls :
          LET o == MqttOnPoll(file_hashes, ev)
          IN  StartSending("Sending", o.hashes, o.out, o.err)
    /\ UNCHANGED files

SendCmStream ==
    /\ backend = "configmap"
    /\ pc = "Running"
    /\ Len(decided) < MaxSent
    /\ \E ev \in CmStreamEvents :
          \E o \in CmOnStream(file_hashes, ev) :
              StartSending("Sending", o.hashes, o.out, o.err)
    /\ UNCHANGED files

\* what a failed send does to the task: map_err(..)? in the scan, unwrap() in
\* the filesystem and MQTT loops, ok() in the ConfigMap adapter
SendFailure ==
    CASE pc = "ScanSending" -> "Notify"
      [] backend = "configmap" -> "ignored"
      [] OTHER -> "Panic"

\* a faulty send that gives up on a full channel (try_send)
SendNextTry ==
    /\ backend # "any"
    /\ pc \in {"ScanSending", "Sending"}
    /\ outbox # <<>>
    /\ outbox' = Tail(outbox)
    /\ receiver = "alive"
    /\ channel' = IF Len(channel) < EventCap THEN Append(channel, Head(outbox))
                  ELSE channel
    /\ UNCHANGED <<backend, pc, result, command, owner, file_pattern, files,
                   file_hashes, lastContent, step>>
    /\ UNCHANGED <<evars, cvars, receiver, pending, decided, received>>

\* event_sender.send(event).await: one event of the outbox
SendNext ==
    /\ backend # "any"
    /\ pc \in {"ScanSending", "Sending"}
    /\ outbox # <<>>
    /\ IF receiver = "alive"
       THEN /\ Len(channel) < EventCap
            /\ channel' = Append(channel, Head(outbox))
            /\ outbox' = Tail(outbox)
            /\ UNCHANGED <<pc, result, pending>>
       ELSE /\ UNCHANGED channel
            /\ IF SendFailure = "ignored"
               THEN outbox' = Tail(outbox) /\ UNCHANGED <<pc, result, pending>>
               ELSE outbox' = <<>> /\ pending' = "none" /\ Finish(SendFailure)
    /\ UNCHANGED <<backend, command, owner, file_pattern, files, file_hashes,
                   lastContent, step>>
    /\ UNCHANGED <<evars, cvars, receiver, decided, received>>

\* the handler's sends are done: it returns, and its error or break ends the task
SendDone ==
    /\ backend # "any"
    /\ pc \in {"ScanSending", "Sending"}
    /\ outbox = <<>>
    /\ IF pending = "none" THEN pc' = "Running" /\ UNCHANGED result
       ELSE Finish(IF pending = "break" THEN "Ok" ELSE pending)
    /\ pending' = "none"
    /\ UNCHANGED <<backend, command, owner, file_pattern, files, file_hashes,
                   lastContent, step>>
    /\ UNCHANGED <<evars, cvars, receiver, channel, outbox, decided, received>>

\* the engine's receiver branch: the batch handle_config_file_event returned
SendEngineRecv ==
    /\ backend = "any"
    /\ epc = "Running"
    /\ Len(decided) < MaxSent
    /\ \E event \in DocumentEvents :
          \E o \in handle_config_file_event(event, item_hashes) :
              /\ Len(decided) + Len(o.out) <= MaxSent
              /\ item_hashes' = o.hashes
              /\ outbox' = o.out
              /\ decided' = decided \o o.out
    /\ epc' = "Sending"
    /\ UNCHANGED <<avars, estep, hvars, cvars, receiver, channel, pending, received>>

\* event_tx.send(event).await.unwrap(): one event of the batch
SendEngineNext ==
    /\ backend = "any"
    /\ epc = "Sending"
    /\ outbox # <<>>
    /\ IF receiver = "alive"
       THEN /\ Len(channel) < EventCap
            /\ channel' = Append(channel, Head(outbox))
            /\ outbox' = Tail(outbox)
            /\ UNCHANGED <<epc, result>>
       ELSE /\ outbox' = <<>>
            /\ epc' = "Stopped"
            /\ result' = "Panic"
            /\ UNCHANGED channel
    /\ UNCHANGED <<backend, pc, command, owner, file_pattern, files, file_hashes,
                   lastContent, step>>
    /\ UNCHANGED <<item_hashes, estep, hvars, cvars, receiver, pending, decided,
                   received>>

\* the batch is sent: back to the select
SendEngineDone ==
    /\ backend = "any"
    /\ epc = "Sending"
    /\ outbox = <<>>
    /\ epc' = "Running"
    /\ UNCHANGED <<avars, item_hashes, estep, hvars, xvars>>

\* the engine's shutdown branch: stop_receiver.changed() with true
EngineStop ==
    /\ backend = "any"
    /\ epc = "Running"
    /\ epc' = "Stopped"
    /\ result' = "Ok"
    /\ UNCHANGED <<backend, pc, command, owner, file_pattern, files, file_hashes,
                   lastContent, step>>
    /\ UNCHANGED <<item_hashes, estep, hvars, xvars>>

\* the consumer takes the next event: Receiver::recv
Receive ==
    /\ receiver = "alive"
    /\ channel # <<>>
    /\ received' = Append(received, Head(channel))
    /\ channel' = Tail(channel)
    /\ UNCHANGED <<avars, evars, cvars, receiver, outbox, pending, decided>>

\* the consumer drops the Receiver, and what the channel held with it
DropReceiver ==
    /\ receiver = "alive"
    /\ receiver' = "dropped"
    /\ channel' = <<>>
    /\ UNCHANGED <<avars, evars, cvars, outbox, pending, decided, received>>

AdapterStart == backend # "any" /\ ApiStart
AdapterStopSend == backend # "any" /\ ApiStopSend
AdapterStopJoin == backend # "any" /\ ApiStopJoin

NextSend ==
    \/ AdapterStart
    \/ AdapterStopSend
    \/ AdapterStopJoin
    \/ FileAwaitStart
    \/ FileFindMatchingFiles
    \/ SendFileInitialScan
    \/ SendFileHandleFsEvent
    \/ FileWatchError
    \/ Loop
    \/ FileRecvCommand
    \/ MqttAwaitStart
    \/ SendMqttPoll
    \/ MqttRecvCommand
    \/ CmAwaitStart
    \/ SendCmStream
    \/ CmRecvCommand
    \/ SendNext
    \/ SendDone
    \/ SendEngineRecv
    \/ SendEngineNext
    \/ SendEngineDone
    \/ EngineStop
    \/ Receive
    \/ DropReceiver

SpecSend == InitSend /\ [][NextSend]_vars

\* the steps the runtime takes for a task that can go on: what follows a
\* completed await (weak), and the command branch of select!, which picks at
\* random among its ready branches (strong). Nothing obliges the source to
\* deliver, the owner to call or the consumer to receive.
TaskFairness ==
    /\ WF_vars(FileAwaitStart) /\ WF_vars(MqttAwaitStart) /\ WF_vars(CmAwaitStart)
    /\ WF_vars(FileFindMatchingFiles) /\ WF_vars(SendFileInitialScan)
    /\ WF_vars(Loop) /\ WF_vars(SendNext) /\ WF_vars(SendDone)
    /\ SF_vars(FileRecvCommand) /\ SF_vars(MqttRecvCommand) /\ SF_vars(CmRecvCommand)
    /\ WF_vars(AdapterStopJoin)

SpecSendFair == SpecSend /\ TaskFairness

(***************************************************************************)
(* The pipeline run_config_item_watcher builds: a backend task (any of the *)
(* adapters, seen through its WatcherHandle and its DocumentEvent          *)
(* channel), the engine task that reads the channel, and the owner of the  *)
(* ConfigItemWatcherHandle.                                                *)
(***************************************************************************)
\* the DocumentEvents the backend sends here: documents of at most one segment
PipeEvents ==
    {e \in DocumentEvents : e.type = "DocumentRemoved" \/ Len(e.content) <= 1}

\* right after run_config_item_watcher: the backend waits for its start
\* command, the engine task is in its loop
InitPipeline ==
    /\ backend = "any"
    /\ pc = "Created"
    /\ result = "none"
    /\ command = <<>>
    /\ owner = "constructed"
    /\ file_pattern = NoPattern
    /\ files = <<>>
    /\ file_hashes = EmptyMap
    /\ lastContent = EmptyMap
    /\ step = NoStep
    /\ epc = "Running"
    /\ item_hashes = {}
    /\ estep = NoEStep
    /\ InitHandle

\* ConfigItemWatcherHandle::start
ItemStart == backend = "any" /\ ApiStart

BackendAwaitStart == backend = "any" /\ AwaitStart("Running")
BackendRecvCommand == backend = "any" /\ RecvCommand

\* the backend sends a DocumentEvent: it waits for room in the channel
BackendEmit ==
    /\ backend = "any"
    /\ pc = "Running"
    /\ Len(channel) < EventCap
    /\ \E event \in PipeEvents : channel' = Append(channel, event)
    /\ UNCHANGED <<avars, evars, cvars, receiver, outbox, pending, decided, received>>

\* the backend task ends on its own with a task-fatal error
BackendFail ==
    /\ backend = "any"
    /\ pc = "Running"
    /\ Finish("FileReadError")
    /\ UNCHANGED <<backend, command, owner, file_pattern, files, file_hashes,
                   lastContent, step>>
    /\ UNCHANGED <<evars, xvars>>

\* ConfigItemWatcherHandle::stop, first line, up to the backend's send
ItemStopSend == backend = "any" /\ ApiStopSend

\* ConfigItemWatcherHandle::stop, first line, the backend's join: an Err leaves
\* stop() through the ?
ItemStopJoin ==
    /\ backend = "any"
    /\ owner = "stopping"
    /\ pc = "Stopped"
    /\ handle = "some"
    /\ handle' = "taken"
    /\ owner' = IF JoinResult = "Ok" THEN "backend_stopped" ELSE "stop_error"
    /\ UNCHANGED <<backend, pc, result, command, file_pattern, files, file_hashes,
                   lastContent, step>>
    /\ UNCHANGED <<evars, calls, svars>>

\* ConfigItemWatcherHandle::stop: let _ = self.stop_sender.send(true)
ItemStopSignal ==
    /\ owner = "backend_stopped"
    /\ stop_sender' = TRUE
    /\ owner' = "signalled"
    /\ UNCHANGED <<backend, pc, result, command, file_pattern, files, file_hashes,
                   lastContent, step>>
    /\ UNCHANGED <<epc, item_hashes, estep, task_handle, xvars>>

\* ConfigItemWatcherHandle::stop: task_handle.take() and handle.await??
ItemStopAwait ==
    /\ owner = "signalled"
    /\ epc = "Stopped"
    /\ task_handle' = "taken"
    /\ owner' = "stop_returned"
    /\ UNCHANGED <<backend, pc, result, command, file_pattern, files, file_hashes,
                   lastContent, step>>
    /\ UNCHANGED <<epc, item_hashes, estep, stop_sender, xvars>>

\* the engine's receiver branch: one DocumentEvent off the channel, then its
\* item events to the consumer
PipeEngineRecv ==
    /\ backend = "any"
    /\ epc = "Running"
    /\ channel # <<>>
    /\ \E o \in handle_config_file_event(Head(channel), item_hashes) :
          item_hashes' = o.hashes
    /\ channel' = Tail(channel)
    /\ UNCHANGED <<avars, epc, estep, hvars, cvars, receiver, outbox, pending,
                   decided, received>>

\* the engine's shutdown branch: stop_receiver.changed() resolves, the value
\* is true, break
PipeEngineStop ==
    /\ backend = "any"
    /\ epc = "Running"
    /\ stop_sender = TRUE
    /\ epc' = "Stopped"
    /\ UNCHANGED <<avars, item_hashes, estep, hvars, xvars>>

NextPipeline ==
    \/ ItemStart
    \/ BackendAwaitStart
    \/ BackendRecvCommand
    \/ BackendEmit
    \/ BackendFail
    \/ ItemStopSend
    \/ ItemStopJoin
    \/ ItemStopSignal
    \/ ItemStopAwait
    \/ PipeEngineRecv
    \/ PipeEngineStop

SpecPipeline == InitPipeline /\ [][NextPipeline]_vars

(***************************************************************************)
(* Properties of the adapters (checked under Spec).                        *)
(***************************************************************************)
\* the events of out that carry id d, in order
EventsOf(out, d) == SelectSeq(out, LAMBDA e : e.id = d)

\* lastContent as it was just before the i-th observation of the step
LastBefore(i) == RecordSent(step.last, Flatten(SubSeq(step.log, 1, i - 1)))

\* the three-way decision for id d observed with content c, table pre before
\* and post after, sent the events of out for d
ThreeWay(pre, post, sent, d, c) ==
    /\ d \notin DOMAIN pre =>
          /\ sent = <<NewDocument(d, c)>>
          /\ d \in DOMAIN post /\ post[d] = hash_str(c)
    /\ (d \in DOMAIN pre /\ pre[d] # hash_str(c)) =>
          /\ sent = <<ContentChanged(d, c)>>
          /\ d \in DOMAIN post /\ post[d] = hash_str(c)
    /\ (d \in DOMAIN pre /\ pre[d] = hash_str(c)) =>
          /\ sent = <<>>
          /\ d \in DOMAIN post /\ post[d] = pre[d]

\* a notification of the filesystem adapter that passed the pattern filter and
\* is classified as new content, with the file read
FsContentObservation(e) ==
    /\ backend = "file"
    /\ step.op = "handle_fs_event"
    /\ e.ev.kind \in ContentKinds \cup {"RenameTo"}
    /\ match_path(file_pattern, e.ev)
    /\ e.seen[e.ev.paths[1]] # Absent

MqttContentObservation(e) ==
    /\ backend = "mqtt"
    /\ e.ev.kind = "Publish"
    /\ e.ev.payload \notin {"", InvalidUtf8}

CmPush(e) ==
    /\ backend = "configmap"
    /\ e.ev.kind \in {"Apply", "InitApply"}
    /\ e.ev.name = configmap_name

\* C1: in every adapter a content observation of id d with hash h sends
\* NewDocument(d, content) and records h when d is not in the table, sends
\* ContentChanged(d, content) and records h when d is tracked with another
\* hash, and sends nothing when d is tracked with hash h.
C1_ThreeWayDecision ==
    \A i \in 1..Len(step.log) :
        LET e == step.log[i]
        IN  /\ FsContentObservation(e) =>
                  /\ ThreeWay(e.pre, e.post, e.out, e.ev.paths[1], e.seen[e.ev.paths[1]])
                  /\ \A p \in DOMAIN e.pre \ {e.ev.paths[1]} :
                        p \in DOMAIN e.post /\ e.post[p] = e.pre[p]
            /\ MqttContentObservation(e) =>
                  /\ ThreeWay(e.pre, e.post, e.out, e.ev.topic, e.ev.payload)
                  /\ \A t \in DOMAIN e.pre \ {e.ev.topic} :
                        t \in DOMAIN e.post /\ e.post[t] = e.pre[t]
            /\ CmPush(e) =>
                  \A k \in DOMAIN e.seen :
                      ThreeWay(e.pre, e.post, EventsOf(e.out, k), k, e.seen[k])

\* a close-write of a tracked file with other content was announced as
\* ContentChanged, a publish on an unseen topic as NewDocument, ...
C1_Witness ==
    /\ backend = "file"
    /\ step.op = "handle_fs_event"
    /\ Len(step.log) = 1
    /\ FsContentObservation(step.log[1])
    /\ step.log[1].ev.kind = "CloseWrite"
    /\ step.log[1].ev.paths[1] \in DOMAIN step.log[1].pre
    /\ step.log[1].out = <<ContentChanged("/w/a.yaml", "v2")>>

\* C2: a write notification for a tracked file whose content is the content
\* carried by the last NewDocument / ContentChanged sent for that id sends no
\* event and leaves the table as it was, whatever happened before.
C2_IdempotentRewrite ==
    (backend = "file" /\ step.op = "handle_fs_event") =>
        \A i \in 1..Len(step.log) :
            LET e == step.log[i]
                p == e.ev.paths[1]
                last == LastBefore(i)
            IN  (/\ e.ev.kind \in ContentKinds
                 /\ p \in DOMAIN e.pre
                 /\ p \in DOMAIN last
                 /\ e.seen[p] = last[p])
                => (e.out = <<>> /\ e.post = e.pre /\ e.err = "none")

\* a tracked file, announced by the initial scan or by a notification, was
\* written again with the same bytes
C2_Witness ==
    /\ backend = "file"
    /\ step.op = "handle_fs_event"
    /\ Len(step.log) = 1
    /\ step.log[1].ev = [kind |-> "ModifyData", paths |-> <<"/w/a.yaml">>]
    /\ "/w/a.yaml" \in DOMAIN step.log[1].pre
    /\ "/w/a.yaml" \in DOMAIN step.last
    /\ step.log[1].seen["/w/a.yaml"] = step.last["/w/a.yaml"]
    /\ step.log[1].out = <<>>

\* a notification of the filesystem adapter that passed the pattern filter and
\* is classified as a removal, or an MQTT publish with an empty payload
RemovalObservation(e) ==
    \/ /\ backend = "file"
       /\ step.op = "handle_fs_event"
       /\ e.ev.kind \in {"RemoveFile", "RenameFrom"}
       /\ match_path(file_pattern, e.ev)
    \/ /\ backend = "mqtt"
       /\ e.ev.kind = "Publish"
       /\ e.ev.payload = ""

RemovedId(e) == IF backend = "file" THEN e.ev.paths[1] ELSE e.ev.topic

C4_RenameBoth ==
    (backend = "file" /\ step.op = "handle_fs_event") =>
        \A i \in 1..Len(step.log) :
            LET e == step.log[i]
                from == e.ev.paths[1]
                to == e.ev.paths[2]
            IN  (/\ e.ev.kind = "RenameBoth"
                 /\ match_path(file_pattern, e.ev)
                 /\ from \in DOMAIN e.pre
                 /\ e.seen[from] = Absent
                 /\ e.seen[to] # Absent)
                => /\ e.out = <<DocumentRemoved(from), NewDocument(to, e.seen[to])>>
                   /\ to \in DOMAIN e.post
                   /\ e.post[to] = hash_str(e.seen[to])
                   /\ e.err = "none"
                   /\ pc # "Stopped"

\* the files a walk over disk finds: present, under the root, matching
Matching(disk) ==
    {p \in Paths : disk[p] # Absent /\ strip_prefix(p) # NoRel
                   /\ gp_matches(file_pattern, strip_prefix(p))}

ScanCompleted ==
    /\ backend = "file"
    /\ step.op = "initial_file_search"
    /\ \A i \in 1..Len(step.log) : step.log[i].err = "none"

\* C5: the completed initial scan has sent exactly one NewDocument per
\* matching file under the root, carrying the content read from it, and the
\* table holds the hash of each; until the scan has completed no notification
\* has been processed (nothing is tracked and nothing was sent).
C5_InitialScan ==
    /\ ScanCompleted =>
          LET sent == Flatten(step.log)
              found == Matching(step.arg)
          IN  /\ Len(sent) = Cardinality(found)
              /\ \A p \in found :
                    \E i \in 1..Len(step.log) :
                        /\ step.log[i].ev.paths = <<p>>
                        /\ EventsOf(sent, p) = <<NewDocument(p, step.log[i].seen[p])>>
                        /\ p \in DOMAIN file_hashes
                        /\ file_hashes[p] = hash_str(step.log[i].seen[p])
              /\ DOMAIN file_hashes = found
              /\ step.last = EmptyMap
    /\ (backend = "file" /\ pc \in {"Created", "Starting", "Scanning"}) =>
          /\ step.op \in {"none", "find_matching_files"}
          /\ file_hashes = EmptyMap
          /\ lastContent = EmptyMap

\* the scan of a root holding a.yaml and b.yaml (and c.tmp) has completed
C5_Witness ==
    /\ ScanCompleted
    /\ Matching(step.arg) = {"/w/a.yaml", "/w/b.yaml"}
    /\ step.arg["/w/c.tmp"] # Absent
    /\ Len(Flatten(step.log)) = 2
    /\ pc = "Iterated"

\* the set of the elements of a sequence
Range(seq) == {seq[i] : i \in 1..Len(seq)}

\* the positions of out holding events of the given types
Positions(out, types) == {i \in 1..Len(out) : out[i].type \in types}

\* C6: a push with map M on table T sends NewDocument for exactly the keys of
\* M not in T, ContentChanged for exactly the keys in both whose hash differs,
\* DocumentRemoved for exactly the keys of T not in M, each once, nothing for
\* an unchanged key; afterwards the table maps each key of M to the hash of
\* its value.
C6_FullStatePush ==
    \A i \in 1..Len(step.log) :
        LET e == step.log[i]
            M == e.seen
            T == e.pre
            expected ==
                {NewDocument(k, M[k]) : k \in DOMAIN M \ DOMAIN T}
                \cup {ContentChanged(k, M[k]) :
                        k \in {x \in DOMAIN M \cap DOMAIN T : T[x] # hash_str(M[x])}}
                \cup {DocumentRemoved(k) : k \in DOMAIN T \ DOMAIN M}
        IN  CmPush(e) =>
                /\ Range(e.out) = expected
                /\ Len(e.out) = Cardinality(expected)
                /\ DOMAIN e.post = DOMAIN M
                /\ \A k \in DOMAIN M : e.post[k] = hash_str(M[k])
                /\ file_hashes = e.post

\* one push added a key, changed one, removed one and left one alone
C6_Witness ==
    /\ Len(step.log) = 1
    /\ CmPush(step.log[1])
    /\ step.log[1].pre = [k \in {"x", "y"} |-> hash_str("1")]
    /\ step.log[1].seen = ("x" :> "2" @@ "z" :> "3")
    /\ Len(step.log[1].out) = 3

\* C7 as claimed: within one push every DocumentRemoved is sent before every
\* NewDocument ({x: 1, y: 2} -> {x: 1, z: 3} sends DocumentRemoved(y) and then
\* NewDocument(z, 3)).
C7_RemovedBeforeNew ==
    \A i \in 1..Len(step.log) :
        LET e == step.log[i]
        IN  CmPush(e) =>
                \A r \in Positions(e.out, {"DocumentRemoved"}),
                   n \in Positions(e.out, {"NewDocument"}) : r < n

\* the push of example scenario C
ScenarioC(e) ==
    /\ CmPush(e)
    /\ e.pre = ("x" :> hash_str("1") @@ "y" :> hash_str("2"))
    /\ e.seen = ("x" :> "1" @@ "z" :> "3")

\* C7 as amended: within one push every NewDocument is sent before every
\* DocumentRemoved; {x: 1, y: 2} -> {x: 1, z: 3} sends NewDocument(z, 3) and
\* then DocumentRemoved(y), and nothing for x.
C7_NewBeforeRemoved ==
    \A i \in 1..Len(step.log) :
        LET e == step.log[i]
        IN  CmPush(e) =>
                /\ \A n \in Positions(e.out, {"NewDocument"}),
                      r \in Positions(e.out, {"DocumentRemoved"}) : n < r
                /\ ScenarioC(e) =>
                      e.out = <<NewDocument("z", "3"), DocumentRemoved("y")>>

\* the ConfigMap {x: 1, y: 2} was pushed as {x: 1, z: 3}
C7_Witness ==
    /\ Len(step.log) = 1
    /\ ScenarioC(step.log[1])
    /\ Len(step.log[1].out) = 2

(***************************************************************************)
(* Properties of the item diff engine (checked under SpecEngine).          *)
(***************************************************************************)
DiffStep == estep.op = "handle_config_file_event"
ContentStep == DiffStep /\ estep.event.type \in {"NewDocument", "ContentChanged"}

\* N: the composite hashes of the trimmed, non-empty, deserializable items
NewSet(id, content) ==
    {<<hash_str(id), hash_str(trim(content[i]))>> :
        i \in {j \in 1..Len(content) :
                  trim(content[j]) # "" /\ deserialize(trim(content[j])) # Absent}}

\* O: the hashes of the set whose filenameHash is hash(id)
OldSet(id, hashes) == {h \in hashes : h[1] = hash_str(id)}

HashesOf(out, types) == {out[i].hash : i \in Positions(out, types)}

\* C8: on NewDocument / ContentChanged(id, content) the engine sends Removed
\* for exactly O \ N and New for exactly N \ O, each once, nothing for the
\* hashes in both, and afterwards the set holds exactly N for that document.
C8_ItemDiff ==
    ContentStep =>
        LET N == NewSet(estep.event.id, estep.event.content)
            O == OldSet(estep.event.id, estep.pre)
        IN  /\ HashesOf(estep.out, {"Removed"}) = O \ N
            /\ Cardinality(Positions(estep.out, {"Removed"})) = Cardinality(O \ N)
            /\ HashesOf(estep.out, {"New"}) = N \ O
            /\ Cardinality(Positions(estep.out, {"New"})) = Cardinality(N \ O)
            /\ \A i \in Positions(estep.out, {"New"}) :
                  \E j \in 1..Len(estep.event.content) :
                      LET t == trim(estep.event.content[j])
                      IN  /\ t # ""
                          /\ estep.out[i].hash = <<hash_str(estep.event.id), hash_str(t)>>
                          /\ estep.out[i].data = deserialize(t)
            /\ OldSet(estep.event.id, item_hashes) = N

\* a document tracked with three items came back with two of them: one
\* Removed, no New
C8_Witness ==
    /\ ContentStep
    /\ estep.event = ContentChanged("f1", <<"a", "c">>)
    /\ Cardinality(OldSet("f1", estep.pre)) = 3
    /\ Len(estep.out) = 1
    /\ estep.out[1].type = "Removed"
    /\ estep.out[1].hash = <<hash_str("f1"), hash_str("b")>>

\* C9: the same item text in two documents gives two ConfigItemHash values,
\* and a step for document d neither adds nor removes an entry of another
\* document nor sends New / Removed with another document's hash.
C9_ItemIsolation ==
    /\ \A f \in DocNames, g \in DocNames :
          f # g => \A t \in {"a", "b", "c"} :
                      ConfigItemHash(hash_str(f), hash_str(t))
                          # ConfigItemHash(hash_str(g), hash_str(t))
    /\ DiffStep =>
          LET d == estep.event.id
          IN  /\ item_hashes \ OldSet(d, item_hashes) = estep.pre \ OldSet(d, estep.pre)
              /\ \A i \in Positions(estep.out, {"New", "Removed"}) :
                    estep.out[i].hash[1] = hash_str(d)
              /\ \A h \in item_hashes \ estep.pre : h[1] = hash_str(d)

\* both documents held the item a; f1 lost it, f2 still has it
C9_Witness ==
    /\ DiffStep
    /\ estep.event.id = "f1"
    /\ <<hash_str("f1"), hash_str("a")>> \in estep.pre
    /\ <<hash_str("f2"), hash_str("a")>> \in estep.pre
    /\ \E i \in 1..Len(estep.out) : estep.out[i] = ItemRemoved(<<hash_str("f1"), hash_str("a")>>)
    /\ <<hash_str("f2"), hash_str("a")>> \in item_hashes
    /\ <<hash_str("f1"), hash_str("a")>> \notin item_hashes

\* C10: for NewDocument the marker is sent first; for NewDocument and
\* ContentChanged every Removed is sent before every New; for DocumentRemoved
\* every Removed is sent before the RemoveDocument marker, which is last.
C10_BatchOrder ==
    DiffStep =>
        /\ estep.event.type = "NewDocument" =>
              /\ Len(estep.out) >= 1
              /\ estep.out[1] = MarkNewDocument(estep.event.id)
              /\ Positions(estep.out, {"NewDocument", "RemoveDocument"}) = {1}
        /\ estep.event.type = "ContentChanged" =>
              Positions(estep.out, {"NewDocument", "RemoveDocument"}) = {}
        /\ ContentStep =>
              \A r \in Positions(estep.out, {"Removed"}),
                 n \in Positions(estep.out, {"New"}) : r < n
        /\ estep.event.type = "DocumentRemoved" =>
              /\ Len(estep.out) >= 1
              /\ estep.out[Len(estep.out)] = MarkRemoveDocument(estep.event.id)
              /\ \A i \in 1..(Len(estep.out) - 1) : estep.out[i].type = "Removed"

\* a NewDocument for an id that still had items: marker, a Removed, a New
C10_Witness ==
    /\ DiffStep
    /\ estep.event.type = "NewDocument"
    /\ Len(estep.out) = 3
    /\ estep.out[1].type = "NewDocument"
    /\ estep.out[2].type = "Removed"
    /\ estep.out[3].type = "New"

\* C11: the engine sends the marker NewDocument(hash(id), id) exactly once for
\* a DocumentEvent NewDocument(id, _), also when the document holds no item,
\* and no such marker for a ContentChanged.
C11_NewDocumentMarker ==
    DiffStep =>
        LET markers == Positions(estep.out, {"NewDocument"})
        IN  /\ estep.event.type = "NewDocument" =>
                  /\ Cardinality(markers) = 1
                  /\ \A i \in markers :
                        /\ estep.out[i].hash = <<hash_str(estep.event.id)>>
                        /\ estep.out[i].data = estep.event.id
            /\ estep.event.type = "ContentChanged" => markers = {}

\* a NewDocument whose only segment does not deserialize, and one with no
\* segment at all, were answered with the marker alone
C11_Witness ==
    /\ DiffStep
    /\ estep.event.type = "NewDocument"
    /\ estep.event.content \in {<<"!">>, <<>>, <<"  ">>}
    /\ estep.out = <<MarkNewDocument(estep.event.id)>>

\* C12: on DocumentRemoved(id) the engine sends Removed for every entry whose
\* filename hash is hash(id), each once, and for no other entry, then
\* RemoveDocument(hash(id)); afterwards no entry has that filename hash.
C12_DocumentRemoved ==
    (DiffStep /\ estep.event.type = "DocumentRemoved") =>
        LET d == estep.event.id
            O == OldSet(d, estep.pre)
            n == Len(estep.out)
        IN  /\ n = Cardinality(O) + 1
            /\ {estep.out[i] : i \in 1..(n - 1)} = {ItemRemoved(h) : h \in O}
            /\ estep.out[n].type = "RemoveDocument"
            /\ estep.out[n].hash = <<hash_str(d)>>
            /\ OldSet(d, item_hashes) = {}
            /\ item_hashes = estep.pre \ O

\* f1 held two items and f2 one when f1 was removed
C12_Witness ==
    /\ DiffStep
    /\ estep.event = [type |-> "DocumentRemoved", id |-> "f1", content |-> <<>>]
    /\ Cardinality(OldSet("f1", estep.pre)) = 2
    /\ Cardinality(OldSet("f2", estep.pre)) = 1
    /\ Len(estep.out) = 3
    /\ item_hashes = OldSet("f2", estep.pre)

(***************************************************************************)
(* Properties of the control layer (checked under SpecControl).            *)
(***************************************************************************)
\* the task has not run: nothing walked, read, tracked or sent
NeverRan ==
    /\ files = <<>>
    /\ file_hashes = EmptyMap
    /\ lastContent = EmptyMap
    /\ step = NoStep

\* C13: when the first call on a fresh handle is stop(), the task goes from
\* Created to Stopped without running and without sending an event, stop() is
\* never stuck (the task can take the Stop command, then the join can finish)
\* and it returns Ok.
C13_StopBeforeStart ==
    /\ (calls = <<>> /\ owner = "stopping") =>
          /\ NeverRan
          /\ \/ pc = "Created" /\ command = <<"Stop">>
             \/ pc = "Stopped" /\ result = "Ok" /\ handle = "some" /\ command = <<>>
    /\ (Len(calls) >= 1 /\ calls[1].api = "stop") =>
          /\ calls[1] = Call("stop", "Ok", "joined")
          /\ pc = "Stopped"
          /\ result = "Ok"
          /\ NeverRan

\* stop() on the fresh handle of a filesystem watcher has returned
C13_Witness ==
    /\ backend = "file"
    /\ calls = <<Call("stop", "Ok", "joined")>>
    /\ owner = "stop_returned"
    /\ pc = "Stopped"
    /\ handle = "taken"

\* the positions of calls holding stop() calls
StopCalls == {i \in 1..Len(calls) : calls[i].api = "stop"}

\* C14: stop() is idempotent: a stop() after a stop() that returned Ok returns
\* Ok again, and a stop() on a task that has ended returns without waiting.
C14_StopIdempotent ==
    /\ \A i \in StopCalls, j \in StopCalls :
          (i < j /\ calls[i].ret = "Ok") => calls[j].ret = calls[i].ret
    /\ \A i \in StopCalls : calls[i].at = "Stopped" => calls[i].ret # "Panic"

\* C15: when the task has ended with an error, the first stop() on its handle
\* returns that error, whether the task ended before or after the call.
C15_StopSurfacesTaskError ==
    \A i \in StopCalls :
        (/\ \A j \in StopCalls : i <= j
         /\ pc = "Stopped"
         /\ result # "Ok")
        => calls[i].ret = result

\* the command branch of the loop takes a Start command
RecvStart ==
    /\ pc = "Running"
    /\ command # <<>>
    /\ Head(command) = "Start"
    /\ command' = Tail(command)

\* start() returns, called on a task that had left Created
StartAgainReturns ==
    /\ Len(calls') = Len(calls) + 1
    /\ calls'[Len(calls')].api = "start"
    /\ calls'[Len(calls')].at # "Created"

\* C16: start() on a task that is Running or Stopped is a no-op: it returns
\* Ok and changes nothing, and the Running task that takes the Start command
\* scans nothing, sends nothing, and leaves its table as it is.
C16_StartNoOp ==
    [][/\ StartAgainReturns =>
             /\ calls'[Len(calls')].ret = "Ok"
             /\ UNCHANGED <<pc, result, files, file_hashes, lastContent>>
       /\ RecvStart =>
             /\ pc' = "Running"
             /\ UNCHANGED <<result, files, file_hashes, lastContent>>]_vars

\* a live notification whose file could not be read
FailedLiveRead(e) ==
    /\ backend = "file"
    /\ step.op = "handle_fs_event"
    /\ e.ev.kind \in ContentKinds \cup {"RenameTo"}
    /\ match_path(file_pattern, e.ev)
    /\ e.seen[e.ev.paths[1]] = Absent

\* C17: a file read failure while handling a live notification is skipped:
\* nothing is sent, no table entry changes, and the task stays Running.
C17_LiveReadFailureSkipped ==
    \A i \in 1..Len(step.log) :
        FailedLiveRead(step.log[i]) =>
            /\ step.log[i].out = <<>>
            /\ step.log[i].post = step.log[i].pre
            /\ file_hashes = step.log[i].post
            /\ pc # "Stopped"
            /\ result = "none"

\* the started task failed at startup: the pattern did not compile, or the
\* Kubernetes client could not be made
StartupFailed == step.op \in {"Pattern::new", "Client::try_default"}

\* C19: a started adapter whose glob pattern is invalid or whose backend
\* client cannot be constructed exits at once, its result is an error, and it
\* never sends an event.
C19_StartupFatal ==
    StartupFailed =>
        /\ pc = "Stopped"
        /\ result \notin {"Ok", "none"}
        /\ file_hashes = EmptyMap
        /\ lastContent = EmptyMap
        /\ step.log = <<>>

\* a send of the producing task fails: the Receiver is gone and the task gives
\* up an event of its outbox
SendFailed ==
    /\ receiver = "dropped"
    /\ outbox # <<>>
    /\ outbox' # outbox

\* the task ends with an error its JoinHandle returns as Err(WatcherError)
EndsWithTaskError ==
    /\ IF backend = "any" THEN epc' = "Stopped" ELSE pc' = "Stopped"
    /\ result' \notin {"none", "Ok", "Panic"}

\* C18: in every producing task (the three adapters and the engine) a send that
\* fails because the receiver was dropped ends the task with a task-fatal error
\* returned through its completion handle: the task neither continues nor
\* panics.
C18_SendFailureFatal == [][SendFailed => EndsWithTaskError]_vars

PathMatches(path) ==
    strip_prefix(path) # NoRel /\ gp_matches(file_pattern, strip_prefix(path))

\* C21: in the filesystem adapter every key of the table and every event sent
\* names a file whose path relative to the root matches the pattern, and a
\* notification none of whose paths match sends nothing, leaves the table as
\* it was and returns no error, for every kind of notification.
C21_PatternFilter ==
    backend = "file" =>
        /\ \A p \in DOMAIN file_hashes : PathMatches(p)
        /\ \A i \in 1..Len(step.log) :
              LET e == step.log[i]
              IN  /\ \A j \in 1..Len(e.out) : PathMatches(e.out[j].id)
                  /\ ~match_path(file_pattern, e.ev) =>
                        e.out = <<>> /\ e.post = e.pre /\ e.err = "none"

\* the task is past its wait for the start command and has not ended
Started == pc \in {"Starting", "Scanning", "Iterated", "Running"}

\* C22: in each adapter, a task in Created sends no event, scans nothing and
\* takes nothing from its source; it leaves Created for a running state only
\* by taking a Start command off the command channel, a Stop or the closed
\* command channel takes it straight to Stopped with Ok(()), and a task that
\* has ended never runs again.
C22_DormantUntilStarted ==
    [][/\ pc = "Created" =>
             /\ files = <<>> /\ file_hashes = EmptyMap /\ lastContent = EmptyMap
             /\ UNCHANGED <<files, file_hashes, lastContent>>
             /\ step'.log = <<>>
             /\ pc' # "Created" =>
                   IF command # <<>> /\ Head(command) = "Start"
                   THEN command' = Tail(command)
                   ELSE pc' = "Stopped" /\ result' = "Ok"
       /\ (Started /\ ~Started') => pc' = "Stopped"
       /\ (~Started /\ Started') =>
             pc = "Created" /\ command # <<>> /\ Head(command) = "Start"
      ]_vars

\* the handle was dropped before any command: the task took None off the
\* closed channel and ended without running
C22_Witness ==
    /\ pc = "Stopped"
    /\ result = "Ok"
    /\ owner = "dropped"
    /\ step.op = "recv None"
    /\ file_hashes = EmptyMap

\* C23: once stop() has sent its command to an adapter task that has not
\* ended, the task ends and stop() returns, whatever the consumer does: also
\* when the task waits on a send to the full event channel and the consumer
\* does not receive.
C23_StopTerminates ==
    (backend # "any" /\ owner = "stopping") ~> (pc = "Stopped" /\ owner = "stop_returned")

\* the segments of a document whose trimmed text deserializes or is empty
Malformed(content) ==
    {i \in 1..Len(content) :
        trim(content[i]) # "" /\ deserialize(trim(content[i])) = Absent}
WithoutMalformed(content) ==
    SelectSeq(content, LAMBDA seg : trim(seg) = "" \/ deserialize(trim(seg)) # Absent)

\* C24: when an item of a document does not deserialize, the engine sends no
\* New for it and does not add its hash to the set, the table and the events
\* of the step are those of the same document without the malformed item, and
\* the engine task goes on.
C24_MalformedItemDropped ==
    (ContentStep /\ Malformed(estep.event.content) # {}) =>
        LET id == estep.event.id
            bad == {<<hash_str(id), hash_str(trim(estep.event.content[i]))>> :
                        i \in Malformed(estep.event.content)}
            clean == [estep.event EXCEPT !.content = WithoutMalformed(estep.event.content)]
        IN  /\ bad \cap item_hashes = {}
            /\ \A i \in 1..Len(estep.out) :
                  estep.out[i].type = "New" => estep.out[i].hash \notin bad
            /\ EOutcome(item_hashes, estep.out) \in
                  handle_config_file_event(clean, estep.pre)
            /\ epc = "Iterated"

\* a document with a malformed item between two good ones: both siblings are
\* announced
C24_Witness ==
    /\ ContentStep
    /\ estep.event = NewDocument("f1", <<"a", "!", "b">>)
    /\ estep.pre = {}
    /\ HashesOf(estep.out, {"New"}) =
          {<<hash_str("f1"), hash_str("a")>>, <<hash_str("f1"), hash_str("b")>>}
    /\ item_hashes = HashesOf(estep.out, {"New"})

\* C25: when stop() of the ConfigItemWatcherHandle has stopped the backend and
\* then the engine, the engine task has taken every DocumentEvent the backend
\* sent: none is left in the channel when the engine task ends.
C25_EngineDrains ==
    (backend = "any" /\ epc = "Stopped") => channel = <<>>

\* C26: a combined rename whose source is not in the table and whose
\* destination matches the pattern sends no DocumentRemoved, reads the content
\* at the destination, records its hash under the destination id and sends an
\* event for the destination id.
C26_RenameBothUntrackedSource ==
    (backend = "file" /\ step.op = "handle_fs_event") =>
        \A i \in 1..Len(step.log) :
            LET e == step.log[i]
                from == e.ev.paths[1]
                to == e.ev.paths[2]
            IN  (/\ e.ev.kind = "RenameBoth"
                 /\ from \notin DOMAIN e.pre
                 /\ PathMatches(to)
                 /\ e.seen[to] # Absent)
                => /\ \A j \in 1..Len(e.out) : e.out[j].type # "DocumentRemoved"
                   /\ \E j \in 1..Len(e.out) :
                         e.out[j].id = to /\ e.out[j].content = e.seen[to]
                   /\ to \in DOMAIN e.post
                   /\ e.post[to] = hash_str(e.seen[to])

RECURSIVE TrackedAfter(_, _)
\* the ids whose latest event is NewDocument or ContentChanged, after the
\* events of out
TrackedAfter(tracked, out) ==
    IF out = <<>> THEN tracked
    ELSE LET e == Head(out)
         IN  TrackedAfter(IF e.type = "DocumentRemoved" THEN tracked \ {e.id}
                          ELSE tracked \cup {e.id}, Tail(out))

RECURSIVE WellFormed(_, _, _)
\* the events of out continue (NewDocument ContentChanged* DocumentRemoved)*
\* for every id; replaces names the ids for which NewDocument may replace a
\* tracked document
WellFormed(tracked, out, replaces) ==
    IF out = <<>> THEN TRUE
    ELSE LET e == Head(out)
         IN  /\ IF e.type = "NewDocument"
                THEN e.id \notin tracked \/ e.id \in replaces
                ELSE e.id \in tracked
             /\ WellFormed(TrackedAfter(tracked, <<e>>), Tail(out), replaces)

\* the destination of a combined rename
RenameDestination(e) ==
    IF backend = "file" /\ e.ev.kind = "RenameBoth" THEN {e.ev.paths[2]} ELSE {}

RECURSIVE WellFormedLog(_, _, _)
WellFormedLog(tracked, log, relaxed) ==
    IF log = <<>> THEN TRUE
    ELSE /\ WellFormed(tracked, Head(log).out,
                       IF relaxed THEN RenameDestination(Head(log)) ELSE {})
         /\ WellFormedLog(TrackedAfter(tracked, Head(log).out), Tail(log), relaxed)

\* C27: in the event stream of an adapter the events of each id follow
\* (NewDocument ContentChanged* DocumentRemoved)*: NewDocument only for an id
\* that is not tracked, ContentChanged and DocumentRemoved only for an id
\* whose latest event is NewDocument or ContentChanged.
C27_WellFormedStream == WellFormedLog(DOMAIN step.last, step.log, FALSE)

\* C27, amended: the same, except that a combined rename sends NewDocument
\* for its destination id also when that id is tracked.
C27_WellFormedButRename == WellFormedLog(DOMAIN step.last, step.log, TRUE)

\* after earlier events, a step that sends ContentChanged for a tracked id
C27_Witness ==
    /\ step.last # EmptyMap
    /\ \E i \in 1..Len(step.log) :
          \E j \in 1..Len(step.log[i].out) :
              /\ step.log[i].out[j].type = "ContentChanged"
              /\ step.log[i].out[j].id \in DOMAIN step.last

RECURSIVE ConsumerView(_, _)
\* the consumer's set after the events of out: add on New, delete on Removed
ConsumerView(view, out) ==
    IF out = <<>> THEN view
    ELSE LET e == Head(out)
         IN  ConsumerView(CASE e.type = "New" -> view \cup {e.hash}
                            [] e.type = "Removed" -> view \ {e.hash}
                            [] OTHER -> view,
                          Tail(out))

RECURSIVE ViewConsistent(_, _)
\* New only for a hash the consumer does not hold, Removed only for one it holds
ViewConsistent(view, out) ==
    IF out = <<>> THEN TRUE
    ELSE LET e == Head(out)
         IN  /\ e.type = "New" => e.hash \notin view
             /\ e.type = "Removed" => e.hash \in view
             /\ ViewConsistent(ConsumerView(view, <<e>>), Tail(out))

\* C28: the set a consumer folds from the engine's output (add on New, delete
\* on Removed) equals the engine's ItemHashSet after every step, New is never
\* sent for a hash in that set and Removed never for a hash outside it. The
\* consumer's set before the step is the engine's set before the step.
C28_ConsumerViewIsEngineState ==
    DiffStep =>
        /\ ViewConsistent(estep.pre, estep.out)
        /\ ConsumerView(estep.pre, estep.out) = item_hashes

\* a step that takes an item out of a tracked document and puts another in
C28_Witness ==
    /\ DiffStep
    /\ estep.pre # {}
    /\ Positions(estep.out, {"Removed"}) # {}
    /\ Positions(estep.out, {"New"}) # {}
    /\ item_hashes # estep.pre

\* C29: in every reachable state of an adapter the keys of its table are the
\* ids whose latest sent event is NewDocument or ContentChanged, and the value
\* of each key is the hash of the content that event carried.
C29_TableMirrorsStream ==
    backend \in Backends =>
        /\ DOMAIN file_hashes = DOMAIN lastContent
        /\ \A id \in DOMAIN file_hashes : file_hashes[id] = hash_str(lastContent[id])

\* between two notifications, after a step that sent ContentChanged for one id
\* while another id stays tracked
C29_Witness ==
    /\ pc = "Iterated"
    /\ Cardinality(DOMAIN file_hashes) = 2
    /\ \E i \in 1..Len(step.log) :
          \E j \in 1..Len(step.log[i].out) :
              LET e == step.log[i].out[j]
              IN  /\ e.type = "ContentChanged"
                  /\ step.last[e.id] # e.content
                  /\ file_hashes[e.id] = hash_str(e.content)

\* a step of the ConfigMap adapter on a stream event that carries a ConfigMap
CmEvent(e) ==
    /\ backend = "configmap"
    /\ step.op = "try_next"
    /\ e.ev.kind \in {"Apply", "InitApply", "Delete"}

\* C30: when the watched ConfigMap is deleted the adapter sends DocumentRemoved
\* for exactly the tracked keys, once each, and empties its table; a push on
\* the empty table (the ConfigMap created again) announces every key with
\* NewDocument; a Delete or Apply for a ConfigMap of another name sends
\* nothing and changes nothing.
C30_ConfigMapDeletion ==
    \A i \in 1..Len(step.log) :
        LET e == step.log[i]
        IN  CmEvent(e) =>
              /\ (e.ev.kind = "Delete" /\ e.ev.name = configmap_name) =>
                    /\ e.post = EmptyMap
                    /\ Len(e.out) = Cardinality(DOMAIN e.pre)
                    /\ {e.out[j].id : j \in 1..Len(e.out)} = DOMAIN e.pre
                    /\ \A j \in 1..Len(e.out) : e.out[j].type = "DocumentRemoved"
              /\ (CmPush(e) /\ e.pre = EmptyMap) =>
                    /\ Len(e.out) = Cardinality(DOMAIN e.seen)
                    /\ \A k \in DOMAIN e.seen :
                          \E j \in 1..Len(e.out) : e.out[j] = NewDocument(k, e.seen[k])
              /\ e.ev.name # configmap_name =>
                    e.out = <<>> /\ e.post = e.pre /\ e.err = "none"

\* the watched ConfigMap is deleted while two keys are tracked
C30_Witness ==
    /\ backend = "configmap"
    /\ step.op = "try_next"
    /\ Len(step.log) = 1
    /\ step.log[1].ev = [kind |-> "Delete", name |-> configmap_name]
    /\ Cardinality(DOMAIN step.log[1].pre) = 2
    /\ Len(step.log[1].out) = 2
    /\ file_hashes = EmptyMap
    /\ lastContent = EmptyMap

\* a call of ConfigItemWatcherHandle::stop has returned, with Ok or with Err
ItemStopReturned == owner \in {"stop_returned", "stop_send_error", "stop_error"}

\* C31: stop() of the ConfigItemWatcherHandle signals the engine only after
\* the backend task has ended, and when a call to it has returned, also one
\* made after the backend task ended on its own, the backend task and the
\* engine task have both ended.
C31_CombinedStop ==
    backend = "any" =>
        /\ stop_sender = TRUE => pc = "Stopped"
        /\ ItemStopReturned => (pc = "Stopped" /\ epc = "Stopped")

====
